---- MODULE Spec2Model ----
(***************************************************************************)
(* A model of scan_error.py: the ScanError class (process-wide sink        *)
(* reference, error_decorator, _filter_arguments, report_error,            *)
(* _call_error_handler, _collect_error_info, _extract_context_info).       *)
(*                                                                         *)
(* Python values are modelled by what the code observes of them:           *)
(*   - a value is [s, len, repr]: its str() text, the length of that text  *)
(*     and whether str() succeeds on it;                                   *)
(*   - a dict is a function from a finite set of string keys;              *)
(*   - a fault is a heap of exception objects (kind, __cause__,            *)
(*     __context__, __suppress_context__, whether str() succeeds) and a    *)
(*     root, so that cause/context links may form cycles;                  *)
(*   - every entry of a report is a record tagged by its field t.          *)
(* Faults are instances of Exception, as the code's annotations say        *)
(* (e: Exception, List[Type[Exception]], error_type: Type[Exception]).     *)
(* The timestamp (datetime.now) and the formatted trace texts are left     *)
(* out of the report: no operation reads them back.                        *)
(***************************************************************************)
EXTENDS Integers, Sequences, FiniteSets, TLC

VARIABLES
    error_handler,  \* ScanError._error_handler: NoSink or a sink
    wrapped,        \* the callable error_decorator returned last (its closure), or NoWrapped
    tasks,          \* the sinks of the runs asyncio.create_task scheduled, not yet run
    last,           \* what the last operation did: its inputs, its outcome, the sink calls it made
    running         \* the wrapped call in progress, where calls are taken statement by statement

vars == <<error_handler, wrapped, tasks, last, running>>

(***************************************************************************)
(* Bounds of the model.                                                    *)
(***************************************************************************)
\* pending detached sink runs
MaxTasks == 1
\* frames between the wrapped target and the raise site (the target's own included)
MaxCallDepth == 2
\* positional arguments of one call
MaxArgs == 1

(***************************************************************************)
(* Program constants.                                                      *)
(***************************************************************************)
ArgLimit == 50
KwLimit == 100
ChainCap == 10
DefaultMaxStackDepth == 10
LocalLimit == 150

(***************************************************************************)
(* Dicts.                                                                  *)
(***************************************************************************)
EmptyDict == [k \in {} |-> 0]

\* d.update(e): e's entries win
Update(d, e) ==
    [k \in (DOMAIN d) \cup (DOMAIN e) |-> IF k \in DOMAIN e THEN e[k] ELSE d[k]]

\* d without the keys of ks (dict.pop(k, None) for each k of ks)
Without(d, ks) == [k \in (DOMAIN d) \ ks |-> d[k]]

\* d.get(k, default)
Get(d, k, default) == IF k \in DOMAIN d THEN d[k] ELSE default

One(k, v) == [x \in {k} |-> v]

(***************************************************************************)
(* Values and their string summaries.                                      *)
(***************************************************************************)
Val(s, n) == [s |-> s, len |-> n, repr |-> TRUE]
\* a value whose __str__ raises
BadVal(s) == [s |-> s, len |-> 0, repr |-> FALSE]

Filtered == [t |-> "str", s |-> "<filtered>", len |-> 10, cut |-> FALSE]
Unrepresentable == [t |-> "str", s |-> "<unable to represent>", len |-> 21, cut |-> FALSE]

\* str(value), cut to limit characters plus '...' when longer; the fixed
\* placeholder when str() raises
Summarize(v, limit) ==
    IF ~v.repr THEN Unrepresentable
    ELSE IF v.len > limit
         THEN [t |-> "str", s |-> v.s, len |-> limit + 3, cut |-> TRUE]
         ELSE [t |-> "str", s |-> v.s, len |-> v.len, cut |-> FALSE]

(***************************************************************************)
(* Fault kinds: the part of Python's exception hierarchy the model uses.   *)
(***************************************************************************)
Kinds == {"Exception", "ArithmeticError", "ZeroDivisionError", "ValueError",
          "UnicodeDecodeError", "TypeError", "RuntimeError"}

Base(k) ==
    CASE k = "ZeroDivisionError" -> "ArithmeticError"
      [] k = "UnicodeDecodeError" -> "ValueError"
      [] k = "Exception" -> "BaseException"
      [] OTHER -> "Exception"

RECURSIVE Mro(_)
\* the kind and its ancestor kinds
Mro(k) == IF k = "BaseException" THEN {k} ELSE {k} \cup Mro(Base(k))

\* isinstance(e, t) for a fault e of kind k
IsInstance(k, t) == t \in Mro(k)

(***************************************************************************)
(* Faults.                                                                 *)
(***************************************************************************)
NoFault == [root |-> 0]

Exc(kind, msg, cause, context, suppress, strOk) ==
    [kind |-> kind, msg |-> msg, cause |-> cause, context |-> context,
     suppress |-> suppress, strOk |-> strOk]

\* raise K("...")
Single(kind) == [root |-> 1, objs |-> <<Exc(kind, "m1", 0, 0, FALSE, TRUE)>>]
\* an exception whose __str__ raises
Unprintable(kind) == [root |-> 1, objs |-> <<Exc(kind, "m1", 0, 0, FALSE, FALSE)>>]
\* try: raise ValueError(..) except ValueError as e: raise RuntimeError(..) from e
Chained == [root |-> 1, objs |-> <<Exc("RuntimeError", "m1", 2, 2, TRUE, TRUE),
                                   Exc("ValueError", "m2", 0, 0, FALSE, TRUE)>>]
\* raise e from e
SelfCause == [root |-> 1, objs |-> <<Exc("ValueError", "m1", 1, 0, TRUE, TRUE)>>]

\* two faults, each raised from the other: a.__cause__ = b; raise b from a
MutualCause == [root |-> 1, objs |-> <<Exc("RuntimeError", "m1", 2, 0, TRUE, TRUE),
                                       Exc("ValueError", "m2", 1, 0, TRUE, TRUE)>>]

KindOf(f) == f.objs[f.root].kind

(***************************************************************************)
(* Targets: what error_decorator wraps.  params are the keyword names the  *)
(* signature declares, varkw whether it declares **kwargs, sig whether     *)
(* inspect.signature succeeds on it, coroutine whether it is async def.    *)
(***************************************************************************)
Target(name, params, varkw, coroutine, sig) ==
    [name |-> name, params |-> params, varkw |-> varkw,
     coroutine |-> coroutine, sig |-> sig]

\* def divide_numbers(a, b): the positional parameters only
DivideNumbers == Target("divide_numbers", {}, FALSE, FALSE, TRUE)
\* async def async_divide(a, b, **kwargs)
AsyncDivide == Target("async_divide", {}, TRUE, TRUE, TRUE)
\* def test_with_error_level(event=None)
TestWithErrorLevel == Target("test_with_error_level", {"event"}, FALSE, FALSE, TRUE)
\* a callable with **kwargs on which signature introspection fails
NoSignature == Target("builtin", {}, TRUE, FALSE, FALSE)

Targets == {DivideNumbers, AsyncDivide, TestWithErrorLevel, NoSignature}

\* the keyword names the target can bind
Accepts(fn, key) == fn.varkw \/ key \in fn.params

\* The target called with args and kwargs: a TypeError at the call when a
\* keyword cannot be bound, else the fault its body raises, else its result,
\* which shows every argument the body received.
CallTarget(fn, args, kwargs, bodyFault) ==
    IF \E k \in DOMAIN kwargs : ~Accepts(fn, k)
    THEN [ok |-> FALSE, fault |-> Single("TypeError"), inBody |-> FALSE]
    ELSE IF bodyFault.root # 0
    THEN [ok |-> FALSE, fault |-> bodyFault, inBody |-> TRUE]
    ELSE [ok |-> TRUE, result |-> [t |-> "result", fn |-> fn.name,
                                   args |-> args, kwargs |-> kwargs]]

(***************************************************************************)
(* _filter_arguments                                                       *)
(***************************************************************************)
ContextKeys == {"target_type", "target_user_id", "target_group_id", "event",
                "error_context", "custom_context", "ignore_errors", "propagate_errors"}

FilterArguments(fn, kwargs) ==
    IF fn.sig
    THEN [k \in {x \in DOMAIN kwargs : x \in fn.params \/ x \notin ContextKeys}
            |-> kwargs[k]]
    ELSE [k \in {x \in DOMAIN kwargs : x \notin ContextKeys} |-> kwargs[k]]

(***************************************************************************)
(* _extract_context_info                                                   *)
(***************************************************************************)
SensitiveNames == {"password", "token", "secret", "key", "api_key", "auth_token"}

\* key.startswith('_'), over the keys of the model
StartsWithUnderscore(key) == key \in {"_private"}

IsSensitive(key) == StartsWithUnderscore(key) \/ key \in SensitiveNames

ArgKey(i) == CASE i = 0 -> "arg_0" [] i = 1 -> "arg_1" [] OTHER -> "arg_2"

CallerKeys == {"caller_function", "caller_filename", "caller_line_number"}

\* the three keys describing the frame that called _extract_context_info
CallerInfo(caller) ==
    [k \in CallerKeys |-> [t |-> "caller", of |-> caller, what |-> k]]

ExtractContextInfo(args, kwargs, caller) ==
    LET positional == [k \in {ArgKey(i - 1) : i \in 1..Len(args)} |->
                         LET i == CHOOSE j \in 1..Len(args) : ArgKey(j - 1) = k
                         IN  Summarize(args[i], ArgLimit)]
        keyword == [k \in DOMAIN kwargs |->
                      IF IsSensitive(k) THEN Filtered ELSE Summarize(kwargs[k], KwLimit)]
    IN  Update(Update(positional, keyword), CallerInfo(caller))

(***************************************************************************)
(* Classification: the ignore loop, then the propagate loop.               *)
(***************************************************************************)
ClassifyPropagateFirst(kind, ignore_errors, propagate_errors) ==
    IF \E t \in propagate_errors : IsInstance(kind, t) THEN "propagate"
    ELSE IF \E t \in ignore_errors : IsInstance(kind, t) THEN "ignore"
    ELSE "capture"

ClassifyNeverPropagate(kind, ignore_errors, propagate_errors) ==
    IF \E t \in ignore_errors : IsInstance(kind, t) THEN "ignore" ELSE "capture"

Classify(kind, ignore_errors, propagate_errors) ==
    IF \E t \in ignore_errors : IsInstance(kind, t) THEN "ignore"
    ELSE IF \E t \in propagate_errors : IsInstance(kind, t) THEN "propagate"
    ELSE "capture"

(***************************************************************************)
(* Frames and tracebacks.  sys.exc_info()[2] is a traceback object: it has *)
(* tb_frame, tb_lineno and tb_next, and none of a frame's attributes.      *)
(***************************************************************************)
None == [t |-> "none"]

Frame(function, filename, locals) ==
    [function |-> function, filename |-> filename, locals |-> locals]

NoExcInfo == [cls |-> "none", frames |-> <<>>]

\* the traceback of a fault being handled; frames from the handling frame
\* (first) to the frame that raised (last)
Traceback(frames) == [cls |-> "traceback", frames |-> frames]

\* a frame object: frames from the frame itself (first) outward to its callers
FrameObject(frames) == [cls |-> "frame", frames |-> frames]

\* hasattr(obj, 'f_code'), 'f_lineno', 'f_locals', 'f_back'
IsFrameObject(obj) == obj.cls = "frame"

\* the local_variables of a FrameRecord
RedactLocals(locals) ==
    [k \in DOMAIN locals |->
        IF StartsWithUnderscore(k) \/ k \in SensitiveNames \cup {"credentials"}
        THEN Filtered
        ELSE Summarize(locals[k], LocalLimit)]

\* Files the source windows are read from: "ok", "missing" (open raises
\* OSError) or "undecodable" (readlines raises UnicodeDecodeError).
FileStates == {"ok", "missing", "undecodable"}

FrameRecord(f, capture_code_context, capture_locals, files) ==
    [filename |-> f.filename, function_name |-> f.function, module |-> f.filename,
     local_variables |-> IF capture_code_context /\ capture_locals /\ DOMAIN f.locals # {}
                         THEN RedactLocals(f.locals) ELSE EmptyDict,
     source_context |-> capture_code_context /\ files[f.filename] = "ok"]

RECURSIVE WalkStack(_, _, _, _, _, _)
\* while frame is not None and frame_index < max_stack_depth: one FrameRecord
\* per frame, frame = frame.f_back; any error in the body ends the walk
WalkStack(obj, frame_index, max_stack_depth, capture_code_context, capture_locals, files) ==
    IF obj.cls = "none" \/ ~(frame_index < max_stack_depth) THEN <<>>
    ELSE IF ~IsFrameObject(obj) THEN <<>>
    ELSE <<FrameRecord(obj.frames[1], capture_code_context, capture_locals, files)>>
         \o WalkStack(IF Len(obj.frames) > 1 THEN FrameObject(Tail(obj.frames)) ELSE NoExcInfo,
                      frame_index + 1, max_stack_depth, capture_code_context,
                      capture_locals, files)

\* The code window around the innermost traceback entry: the lines of the
\* file, the single known line when open fails with OSError; a
\* UnicodeDecodeError is not among the errors the read catches.
ReadCodeContext(state) ==
    CASE state = "ok" -> [ok |-> TRUE, lines |-> "window"]
      [] state = "missing" -> [ok |-> TRUE, lines |-> "single"]
      [] OTHER -> [ok |-> FALSE, exc |-> "UnicodeDecodeError"]

(***************************************************************************)
(* The causal chain walk.                                                  *)
(***************************************************************************)
NextLink(o) ==
    IF o.cause # 0 THEN o.cause
    ELSE IF o.context # 0 /\ ~o.suppress THEN o.context
    ELSE 0

Relation(o) ==
    IF o.cause # 0 THEN "caused_by"
    ELSE IF o.context # 0 /\ ~o.suppress THEN "context_for"
    ELSE "none"

ChainLink(o, chain_index) ==
    [type |-> o.kind, message |-> o.msg, index |-> chain_index,
     is_original |-> chain_index = 0, relation |-> Relation(o)]

RECURSIVE ChainWalkOffByOne(_, _, _)
ChainWalkOffByOne(objs, current_error, chain_index) ==
    IF current_error = 0 \/ ~(chain_index <= ChainCap) THEN <<>>
    ELSE <<ChainLink(objs[current_error], chain_index)>>
         \o ChainWalkOffByOne(objs, NextLink(objs[current_error]), chain_index + 1)

RECURSIVE ChainWalk(_, _, _)
\* while current_error is not None and chain_index < 10
ChainWalk(objs, current_error, chain_index) ==
    IF current_error = 0 \/ ~(chain_index < ChainCap) THEN <<>>
    ELSE <<ChainLink(objs[current_error], chain_index)>>
         \o ChainWalk(objs, NextLink(objs[current_error]), chain_index + 1)

RECURSIVE Visited(_, _, _)
\* the exception objects the walk calls str() on
Visited(objs, current_error, chain_index) ==
    IF current_error = 0 \/ ~(chain_index < ChainCap) THEN {}
    ELSE {current_error} \cup Visited(objs, NextLink(objs[current_error]), chain_index + 1)

(***************************************************************************)
(* _collect_error_info                                                     *)
(***************************************************************************)
CoreKeys == {"error", "location", "code_context", "stack_trace", "raw_traceback",
             "highlighted_code", "configuration"}

\* exc: the kind raised out of _collect_error_info, or the report's core
CollectErrorInfo(fault, capture_code_context, error_level, capture_locals, max_stack_depth, exc_info, files) ==
    LET tb == exc_info.frames
        innermost == tb[Len(tb)]
        code == IF capture_code_context /\ tb # <<>>
                THEN ReadCodeContext(files[innermost.filename])
                ELSE [ok |-> TRUE, lines |-> "none"]
        stack_trace == WalkStack(exc_info, 0, max_stack_depth, capture_code_context,
                                 capture_locals, files)
        strOk == \A i \in Visited(fault.objs, fault.root, 0) : fault.objs[i].strOk
        root == fault.objs[fault.root]
    IN  IF ~code.ok THEN [ok |-> FALSE, exc |-> code.exc]
        ELSE IF ~strOk THEN [ok |-> FALSE, exc |-> "RuntimeError"]
        ELSE [ok |-> TRUE, info |->
                [error |-> [t |-> "error", type |-> root.kind, message |-> root.msg,
                            exception_chain |-> ChainWalk(fault.objs, fault.root, 0),
                            level |-> error_level],
                 location |-> IF tb # <<>>
                              THEN [t |-> "location", filename |-> innermost.filename,
                                    function_name |-> innermost.function]
                              ELSE None,
                 code_context |-> IF capture_code_context /\ tb # <<>>
                                  THEN [t |-> "code", lines |-> code.lines]
                                  ELSE None,
                 stack_trace |-> [t |-> "frames", frames |-> stack_trace],
                 raw_traceback |-> [t |-> "text"],
                 highlighted_code |-> IF capture_code_context /\ tb # <<>>
                                      THEN [t |-> "highlighted", lines |-> code.lines]
                                      ELSE None,
                 configuration |-> [t |-> "configuration",
                                    capture_code_context |-> capture_code_context,
                                    capture_locals |-> capture_locals,
                                    max_stack_depth |-> max_stack_depth,
                                    error_level |-> error_level]]]

(***************************************************************************)
(* Sinks and _call_error_handler.                                          *)
(***************************************************************************)
NoSink == "none"

\* a blocking sink that returns, a blocking sink that raises, a coroutine function
Sinks == {"syncOk", "syncRaise", "asyncOk"}

\* inspect.iscoroutinefunction(sink)
IsCoroutineSink(sink) == sink = "asyncOk"

SinkRaises(sink) == sink = "syncRaise"

\* the effect of doing nothing; report is the report assembled, if one was
Quiet == [invoked |-> <<>>, scheduled |-> <<>>, diag |-> {}, raised |-> "none",
          report |-> None]

CallErrorHandlerNoCatch(handler, error_info, loopRunning) ==
    IF handler = NoSink THEN Quiet
    ELSE IF IsCoroutineSink(handler)
    THEN IF loopRunning
         THEN [Quiet EXCEPT !.scheduled = <<[sink |-> handler, report |-> error_info]>>]
         ELSE [Quiet EXCEPT !.raised = "RuntimeError"]
    ELSE [Quiet EXCEPT !.invoked = <<[sink |-> handler, report |-> error_info]>>,
                       !.raised = IF SinkRaises(handler) THEN "RuntimeError" ELSE "none"]

\* What one dispatch does: the sink calls made, the detached runs scheduled,
\* the diagnostic lines printed, the kind raised out of the dispatch.
\* asyncio.create_task raises RuntimeError when no event loop is running;
\* the coroutine object made for it is never run.
CallErrorHandler(handler, error_info, loopRunning) ==
    IF handler = NoSink THEN Quiet
    ELSE IF IsCoroutineSink(handler)
    THEN IF loopRunning
         THEN [Quiet EXCEPT !.scheduled = <<[sink |-> handler, report |-> error_info]>>]
         ELSE [Quiet EXCEPT !.diag = {"handler_failed"}]
    ELSE [Quiet EXCEPT !.invoked = <<[sink |-> handler, report |-> error_info]>>,
                       !.diag = IF SinkRaises(handler) THEN {"handler_failed"} ELSE {}]

SetErrorHandlerKeepOnNone(current, handler) == IF handler = NoSink THEN current ELSE handler

\* cls._error_handler = handler
SetErrorHandler(current, handler) == handler

(***************************************************************************)
(* error_decorator: the closure decorator(fn) builds.  decorator_kwargs is *)
(* given in two parts: opts, the recognised options, and ctx, every other  *)
(* keyword.                                                                *)
(***************************************************************************)
NoWrapped == [fn |-> None]

ConfigKeys == {"ignore_errors", "propagate_errors", "custom_context", "capture_code_context"}

\* the value an option has as a keyword of the decorator
OptVal(k, v) ==
    CASE k \in {"capture_locals", "capture_code_context"} ->
            IF v THEN Val("True", 4) ELSE Val("False", 5)
      [] k = "max_stack_depth" -> Val(ToString(v), IF v < 10 THEN 1 ELSE 2)
      [] k = "error_level" -> Val(v, 5)
      [] OTHER -> Val(k, 2)

\* decorator_kwargs.copy() without the four configuration keys
ContextDecoratorKwargs(opts, ctx) ==
    Without(Update(ctx, [k \in DOMAIN opts |-> OptVal(k, opts[k])]), ConfigKeys)

\* fn.__code__.co_filename: the file of the target, or scan_error.py when fn
\* is itself a wrapper make_wrapper returned
CodeFile(fn) == IF "wrapper" \in DOMAIN fn THEN "scan_error.py" ELSE "target.py"

Decorator(fn, opts, ctx) ==
    [fn |-> fn,
     original_func_info |-> [name |-> fn.name, module |-> "example_usage",
                             filename |-> CodeFile(fn), lineno |-> "co_firstlineno"],
     ignore_errors |-> Get(opts, "ignore_errors", {}),
     propagate_errors |-> Get(opts, "propagate_errors", {}),
     custom_context |-> Get(opts, "custom_context", EmptyDict),
     capture_code_context |-> Get(opts, "capture_code_context", TRUE),
     error_level |-> Get(opts, "error_level", "DEBUG"),
     capture_locals |-> Get(opts, "capture_locals", FALSE),
     max_stack_depth |-> Get(opts, "max_stack_depth", DefaultMaxStackDepth),
     context_decorator_kwargs |-> ContextDecoratorKwargs(opts, ctx),
     is_coroutine |-> fn.coroutine]

DecoratedKeys == {"decorated_function_name", "decorated_function_module",
                  "decorated_function_filename", "decorated_function_lineno"}

\* context_info[f"decorated_function_{key}"] = str(value)
DecoratedInfo(original_func_info) ==
    [k \in DecoratedKeys |->
        [t |-> "decorated", of |-> original_func_info.name,
         file |-> original_func_info.filename, what |-> k]]

(***************************************************************************)
(* _handle_exception                                                       *)
(***************************************************************************)
NoVal == [s |-> "", len |-> 0, repr |-> TRUE, absent |-> TRUE]

\* kwargs.copy(), updated with the decorator's context keywords, and with the
\* event found in the locals of the wrapper's caller when there is none yet
ContextKwargs(w, kwargs, callerEvent) ==
    LET merged == Update(kwargs, w.context_decorator_kwargs)
    IN  IF "event" \notin DOMAIN merged /\ callerEvent # NoVal
        THEN Update(merged, One("event", callerEvent))
        ELSE merged

\* a value placed in the report as it is, with no summary made of it
Raw(v) == [t |-> "raw", s |-> v.s, len |-> v.len, repr |-> v.repr]

\* the report handed to _call_error_handler, or the kind raised on the way
BuildReport(w, fault, args, kwargs, env, exc_info, files) ==
    LET context_kwargs == ContextKwargs(w, kwargs, env.callerEvent)
        extracted == ExtractContextInfo(args, context_kwargs, "_handle_exception")
        custom == [k \in DOMAIN w.custom_context |-> Raw(w.custom_context[k])]
        context_info == Update(Update(extracted, custom),
                               DecoratedInfo(w.original_func_info))
        collected == CollectErrorInfo(fault, w.capture_code_context, w.error_level,
                                      w.capture_locals, w.max_stack_depth, exc_info, files)
    IN  IF collected.ok
        THEN [ok |-> TRUE, report |-> Update(collected.info, context_info)]
        ELSE collected

\* the try block of _handle_exception without its except clause
CaptureUnguarded(w, fault, args, kwargs, env, exc_info, files, handler, loopRunning) ==
    LET built == BuildReport(w, fault, args, kwargs, env, exc_info, files)
    IN  IF built.ok
        THEN [CallErrorHandler(handler, built.report, loopRunning)
                EXCEPT !.report = built.report]
        ELSE [Quiet EXCEPT !.raised = built.exc]

\* the try block of _handle_exception and its except Exception clause
Capture(w, fault, args, kwargs, env, exc_info, files, handler, loopRunning) ==
    LET built == BuildReport(w, fault, args, kwargs, env, exc_info, files)
        sent == IF built.ok
                THEN [CallErrorHandler(handler, built.report, loopRunning)
                        EXCEPT !.report = built.report]
                ELSE [Quiet EXCEPT !.raised = built.exc]
    IN  IF sent.raised # "none"
        THEN [sent EXCEPT !.raised = "none", !.diag = @ \cup {"internal_failed"}]
        ELSE sent

Returned(value, effect) ==
    [outcome |-> "returned", value |-> value, raised |-> NoFault,
     invoked |-> effect.invoked, scheduled |-> effect.scheduled, diag |-> effect.diag,
     report |-> effect.report]

Raised(fault, effect) ==
    [outcome |-> "raised", value |-> None, raised |-> fault,
     invoked |-> effect.invoked, scheduled |-> effect.scheduled, diag |-> effect.diag,
     report |-> effect.report]

Name(kind) == [t |-> "name", name |-> kind]

HandleException(w, fault, args, kwargs, env, exc_info, files, handler, loopRunning) ==
    LET class == Classify(KindOf(fault), w.ignore_errors, w.propagate_errors)
        effect == Capture(w, fault, args, kwargs, env, exc_info, files, handler, loopRunning)
    IN  CASE class = "ignore" -> Returned(Name(KindOf(fault)), Quiet)
          [] class = "propagate" -> Raised(fault, Quiet)
          [] OTHER -> IF effect.raised # "none"
                      THEN Raised(Single(effect.raised), effect)
                      ELSE Returned(Name(KindOf(fault)), effect)

(***************************************************************************)
(* The wrapper make_wrapper returns (wrapper and async_wrapper differ only *)
(* in awaiting the target, so an event loop is running around the second). *)
(***************************************************************************)
Files(env) == [f \in {"scan_error.py", "target.py"} |->
                 IF f = "target.py" THEN env.file ELSE "ok"]

\* the traceback of a fault caught by the wrapper: the wrapper's frame, then,
\* when the target's body raised, the target's frame and the frames under it
CaughtTraceback(w, filtered_kwargs, inBody, depth) ==
    LET own == Frame(IF w.is_coroutine THEN "async_wrapper" ELSE "wrapper",
                     "scan_error.py", EmptyDict)
        target == Frame(w.fn.name, "target.py",
                        [k \in (DOMAIN filtered_kwargs) \cap w.fn.params |-> filtered_kwargs[k]])
        inner == [i \in 1..(depth - 1) |-> Frame("inner", "target.py", EmptyDict)]
    IN  Traceback(IF inBody THEN <<own, target>> \o inner ELSE <<own>>)

Wrapper(w, args, kwargs, bodyFault, env, handler) ==
    LET filtered_kwargs == FilterArguments(w.fn, kwargs)
        called == CallTarget(w.fn, args, filtered_kwargs, bodyFault)
    IN  IF called.ok
        THEN Returned(called.result, Quiet)
        ELSE HandleException(w, called.fault, args, kwargs, env,
                             CaughtTraceback(w, filtered_kwargs, called.inBody, env.depth),
                             Files(env), handler, w.is_coroutine \/ env.loop)

(***************************************************************************)
(* A wrapper wrapped again: the fn of a decorator is itself a wrapper.     *)
(***************************************************************************)
\* The callable make_wrapper returned, as the fn of another decorator:
\* functools.wraps gives it the target's __name__ and __module__ and
\* inspect.signature follows __wrapped__ to the target's signature; its
\* __code__ is the wrapper's own; it is a coroutine function when it is
\* async_wrapper.
WrapperAsTarget(w) ==
    [name |-> w.fn.name, params |-> w.fn.params, varkw |-> w.fn.varkw,
     coroutine |-> w.is_coroutine, sig |-> w.fn.sig, wrapper |-> TRUE]

\* the traceback of a fault the inner wrapper let through, caught by the
\* outer wrapper: the outer wrapper's frame, the inner wrapper's frame at its
\* call of _handle_exception, then the traceback the inner wrapper caught
NestedTraceback(outer, inner_tb) ==
    Traceback(<<Frame(IF outer.is_coroutine THEN "async_wrapper" ELSE "wrapper",
                      "scan_error.py", EmptyDict),
                Frame(inner_tb.frames[1].function, "scan_error.py", EmptyDict)>>
              \o inner_tb.frames)

\* the traceback the inner wrapper caught for the call it made
InnerTraceback(inner, args, inner_kwargs, bodyFault, depth) ==
    LET c == CallTarget(inner.fn, args, inner_kwargs, bodyFault)
    IN  CaughtTraceback(inner, inner_kwargs, IF c.ok THEN FALSE ELSE c.inBody, depth)

\* the outer wrapper after its fn, the inner wrapper, has returned or raised
OuterLayer(outer, called, inner_tb, args, kwargs, env, handler) ==
    IF called.outcome = "returned"
    THEN called
    ELSE HandleException(outer, called.raised, args, kwargs, env,
                         NestedTraceback(outer, inner_tb), Files(env), handler,
                         outer.is_coroutine \/ env.loop)

\* The outer wrapper called: its fn is the inner wrapper, which binds any
\* keyword, runs under the same sink, and is called from the outer wrapper's
\* frame, where no local is named event.
NestedWrapper(outer, inner, args, kwargs, bodyFault, env, handler) ==
    OuterLayer(outer,
               Wrapper(inner, args, FilterArguments(outer.fn, kwargs), bodyFault,
                       [env EXCEPT !.callerEvent = NoVal], handler),
               InnerTraceback(inner, args,
                              FilterArguments(inner.fn, FilterArguments(outer.fn, kwargs)),
                              bodyFault, env.depth),
               args, kwargs, env, handler)

(***************************************************************************)
(* report_error.  kwargs is given as opts (error_level, capture_locals,    *)
(* max_stack_depth, which are popped) and ctx (what is left).  handling    *)
(* tells whether the call is made while a fault is being handled, so that  *)
(* sys.exc_info() is set.                                                  *)
(***************************************************************************)
\* the traceback sys.exc_info() holds inside an except block of the caller
HandledTraceback == Traceback(<<Frame("caller", "target.py", EmptyDict)>>)

ReportError(error_type, error_reason, capture_code_context, opts, ctx, handling, env, handler) ==
    LET error == [root |-> 1, objs |-> <<Exc(error_type, error_reason, 0, 0, FALSE, TRUE)>>]
        context_info == ExtractContextInfo(<<>>, ctx, "report_error")
        collected == CollectErrorInfo(error, capture_code_context,
                                      Get(opts, "error_level", "DEBUG"),
                                      Get(opts, "capture_locals", FALSE),
                                      Get(opts, "max_stack_depth", DefaultMaxStackDepth),
                                      IF handling THEN HandledTraceback ELSE NoExcInfo,
                                      Files(env))
        error_info == Update(collected.info, context_info)
        effect == [CallErrorHandler(handler, error_info, env.loop)
                     EXCEPT !.report = error_info]
    IN  IF ~collected.ok THEN Raised(Single(collected.exc), Quiet)
        ELSE IF effect.raised # "none" THEN Raised(Single(effect.raised), effect)
        ELSE Returned(None, effect)

(***************************************************************************)
(* The inputs the operations are tried on.                                 *)
(***************************************************************************)
Short == Val("c", 3)
Long == Val("L", 120)
FromDecorator == Val("d", 3)
FromCustom == Val("x", 3)
Event == Val("evt", 3)

CallKeys == {"error", "password", "_private", "target_type", "event", "note"}

\* one keyword at most: each key with a short value, an ordinary key with a long one
CallKwargs == {EmptyDict} \cup {One(k, Short) : k \in CallKeys} \cup {One("note", Long)}

CallArgs == UNION {[1..n -> {Long, BadVal("b")}] : n \in 0..MaxArgs}

BodyFaults == {NoFault, Single("ZeroDivisionError"), Single("ValueError"), Chained,
               SelfCause, Unprintable("RuntimeError")}

Env(file, loop, callerEvent, depth) ==
    [file |-> file, loop |-> loop, callerEvent |-> callerEvent, depth |-> depth]

DefaultEnv == Env("ok", FALSE, NoVal, 1)

CallInput(args, kwargs, bodyFault, env) ==
    [args |-> args, kwargs |-> kwargs, bodyFault |-> bodyFault, env |-> env]

\* keywords; positional arguments; faults and source files; a running event
\* loop; the caller's event and the depth of the raise
CallInputs ==
         {CallInput(<<>>, kw, f, DefaultEnv) :
            kw \in CallKwargs, f \in {NoFault, Single("ZeroDivisionError")}}
    \cup {CallInput(a, EmptyDict, f, DefaultEnv) :
            a \in CallArgs, f \in {NoFault, Single("ZeroDivisionError")}}
    \cup {CallInput(<<>>, EmptyDict, f, Env(file, FALSE, NoVal, 1)) :
            f \in BodyFaults, file \in FileStates}
    \cup {CallInput(<<>>, EmptyDict, Single("ZeroDivisionError"), Env("ok", TRUE, NoVal, 1))}
    \cup {CallInput(<<>>, kw, Single("ZeroDivisionError"), Env("ok", FALSE, Event, d)) :
            kw \in {EmptyDict, One("event", Short)}, d \in 1..MaxCallDepth}

NestInput(opts, ctx, kwargs, bodyFault, env) ==
    [opts |-> opts, ctx |-> ctx, args |-> <<>>, kwargs |-> kwargs,
     bodyFault |-> bodyFault, env |-> env]

\* the outer layer's keywords; faults of the innermost target; a keyword of
\* the call; the caller's event
NestInputs ==
         {NestInput(EmptyDict, One("target_user_id", FromDecorator), EmptyDict, f, DefaultEnv) :
            f \in {NoFault, Single("ZeroDivisionError"), Single("ValueError")}}
    \cup {NestInput(EmptyDict, EmptyDict, kw, Single("ZeroDivisionError"),
                     Env("ok", FALSE, Event, 1)) :
            kw \in {EmptyDict, One("note", Short)}}

WrapInput(fn, opts, ctx) == [fn |-> fn, opts |-> opts, ctx |-> ctx]

\* targets; classification sets; custom context; context keywords; the
\* capture options
WrapInputs ==
         {WrapInput(fn, EmptyDict, EmptyDict) : fn \in Targets}
    \cup {WrapInput(fn, Update(i, p), EmptyDict) :
            fn \in {DivideNumbers, AsyncDivide},
            i \in {EmptyDict, One("ignore_errors", {"ArithmeticError"})},
            p \in {EmptyDict, One("propagate_errors", {"ArithmeticError"}),
                   One("propagate_errors", {"ValueError"})}}
    \cup {WrapInput(AsyncDivide, One("custom_context", One(k, FromCustom)), EmptyDict) :
            k \in {"error", "password", "_private"}}
    \cup {WrapInput(AsyncDivide, EmptyDict, One(k, FromDecorator)) :
            k \in {"error", "password", "_private", "target_type"}}
    \cup {WrapInput(DivideNumbers, o, EmptyDict) :
            o \in {One("capture_code_context", FALSE), One("capture_locals", TRUE),
                   [capture_code_context |-> FALSE, capture_locals |-> TRUE],
                   One("max_stack_depth", 0), One("max_stack_depth", 1),
                   One("error_level", "ERROR")}}

ReportInput(error_type, capture_code_context, opts, ctx, handling, env) ==
    [error_type |-> error_type, error_reason |-> "why",
     capture_code_context |-> capture_code_context, opts |-> opts, ctx |-> ctx,
     handling |-> handling, env |-> env]

\* context keywords; options; a fault being handled and source files; a
\* running event loop
ReportInputs ==
         {ReportInput(k, TRUE, EmptyDict, ctx, FALSE, DefaultEnv) :
            k \in {"ValueError", "ZeroDivisionError"},
            ctx \in {EmptyDict} \cup {One(key, Short) : key \in {"error", "password"}}}
    \cup {ReportInput("ValueError", TRUE, o, EmptyDict, FALSE, DefaultEnv) :
            o \in {One("max_stack_depth", 1), One("capture_locals", TRUE),
                   One("error_level", "ERROR")}}
    \cup {ReportInput("ValueError", ccc, EmptyDict, EmptyDict, handling, Env(file, FALSE, NoVal, 1)) :
            ccc \in BOOLEAN, handling \in BOOLEAN, file \in FileStates}
    \cup {ReportInput("ValueError", TRUE, EmptyDict, EmptyDict, FALSE, Env("ok", TRUE, NoVal, 1))}

(***************************************************************************)
(* The state machine.                                                      *)
(***************************************************************************)
Done(op, in, handler, result) ==
    [op |-> op, in |-> in, handler |-> handler, outcome |-> result.outcome,
     value |-> result.value, raised |-> result.raised, invoked |-> result.invoked,
     scheduled |-> result.scheduled, diag |-> result.diag, report |-> result.report]

\* the runs the event loop holds for the tasks scheduled
Pending(scheduled) == [i \in 1..Len(scheduled) |-> scheduled[i].sink]

\* no call in progress
Idle == [pc |-> "idle", fault |-> NoFault, loop |-> FALSE, current_error |-> 0,
         chain_index |-> 0, exception_chain |-> <<>>, error_info |-> None,
         seen |-> {}, convention |-> FALSE, effect |-> Quiet]

Init ==
    /\ error_handler = NoSink
    /\ wrapped = NoWrapped
    /\ tasks = <<>>
    /\ last = Done("init", None, NoSink, Returned(None, Quiet))
    /\ running = Idle

\* ScanError.set_error_handler(handler)
SetHandler ==
    \E handler \in Sinks \cup {NoSink} :
        /\ error_handler' = SetErrorHandler(error_handler, handler)
        /\ last' = Done("set_error_handler", handler, error_handler, Returned(None, Quiet))
        /\ UNCHANGED <<wrapped, tasks, running>>

\* wrapped = error_decorator(**decorator_kwargs)(fn)
Wrap ==
    \E in \in WrapInputs :
        /\ wrapped' = Decorator(in.fn, in.opts, in.ctx)
        /\ last' = Done("error_decorator", in, error_handler, Returned(None, Quiet))
        /\ UNCHANGED <<error_handler, tasks, running>>

\* wrapped(*args, **kwargs), to its return or raise
Call ==
    \E in \in CallInputs :
        LET result == Wrapper(wrapped, in.args, in.kwargs, in.bodyFault, in.env, error_handler)
        IN  /\ wrapped # NoWrapped
            /\ Len(tasks) < MaxTasks
            /\ last' = Done("call", in, error_handler, result)
            /\ tasks' = tasks \o Pending(result.scheduled)
            /\ UNCHANGED <<error_handler, wrapped, running>>

\* error_decorator(**decorator_kwargs)(wrapped)(*args, **kwargs): the wrapped
\* callable decorated a second time and called through both layers
CallNested ==
    \E in \in NestInputs :
        LET outer == Decorator(WrapperAsTarget(wrapped), in.opts, in.ctx)
            result == NestedWrapper(outer, wrapped, in.args, in.kwargs, in.bodyFault,
                                    in.env, error_handler)
        IN  /\ wrapped # NoWrapped
            /\ Len(tasks) < MaxTasks
            /\ last' = Done("nested_call", in, error_handler, result)
            /\ tasks' = tasks \o Pending(result.scheduled)
            /\ UNCHANGED <<error_handler, wrapped, running>>

\* ScanError.report_error(error_type, error_reason, capture_code_context, **kwargs)
Report ==
    \E in \in ReportInputs :
        LET result == ReportError(in.error_type, in.error_reason, in.capture_code_context,
                                  in.opts, in.ctx, in.handling, in.env, error_handler)
        IN  /\ Len(tasks) < MaxTasks
            /\ last' = Done("report_error", in, error_handler, result)
            /\ tasks' = tasks \o Pending(result.scheduled)
            /\ UNCHANGED <<error_handler, wrapped, running>>

\* the event loop runs the oldest detached sink run
RunTask ==
    /\ tasks # <<>>
    /\ last' = Done("task", None, error_handler,
                    Returned(None, [Quiet EXCEPT !.invoked = <<[sink |-> Head(tasks), report |-> None]>>]))
    /\ tasks' = Tail(tasks)
    /\ UNCHANGED <<error_handler, wrapped, running>>

Next == SetHandler \/ Wrap \/ Call \/ CallNested \/ Report \/ RunTask

Spec == Init /\ [][Next]_vars

(***************************************************************************)
(* One call of the wrapped divide_numbers taken statement by statement,    *)
(* from the wrapper's except clause to its return: the chain walk pass by  *)
(* pass, the three reads of cls._error_handler in _call_error_handler one  *)
(* by one, while set_error_handler runs on another thread.                 *)
(***************************************************************************)
StepFaults == {Single("ZeroDivisionError"), Chained, SelfCause, MutualCause}

WalkContinuesUncapped(current_error, chain_index) == current_error # 0

\* while current_error is not None and chain_index < 10
WalkContinues(current_error, chain_index) == current_error # 0 /\ chain_index < ChainCap

InvokeSinkAndSchedule(convention, h, error_info, loop) ==
    IF h = NoSink THEN [Quiet EXCEPT !.diag = {"handler_failed"}]
    ELSE IF convention /\ loop
    THEN [Quiet EXCEPT !.scheduled = <<[sink |-> h, report |-> error_info]>>,
                       !.invoked = IF IsCoroutineSink(h) THEN <<>>
                                   ELSE <<[sink |-> h, report |-> error_info]>>]
    ELSE CallErrorHandler(h, error_info, loop)

\* The third read of cls._error_handler and the call made on it, under the
\* calling convention the second read found; every error is caught by the
\* except clause of _call_error_handler.
\*   None(error_info) raises TypeError.
\*   Coroutine branch: a coroutine sink gives a coroutine that create_task
\*   schedules, or fails to with no loop running; a blocking sink runs at
\*   once and returns None, which create_task rejects.
\*   Blocking branch: a coroutine sink gives a coroutine that is dropped
\*   and never runs; a blocking sink runs at once.
InvokeSink(convention, h, error_info, loop) ==
    IF h = NoSink THEN [Quiet EXCEPT !.diag = {"handler_failed"}]
    ELSE IF convention
    THEN IF IsCoroutineSink(h)
         THEN IF loop
              THEN [Quiet EXCEPT !.scheduled = <<[sink |-> h, report |-> error_info]>>]
              ELSE [Quiet EXCEPT !.diag = {"handler_failed"}]
         ELSE [Quiet EXCEPT !.invoked = <<[sink |-> h, report |-> error_info]>>,
                            !.diag = {"handler_failed"}]
    ELSE IF IsCoroutineSink(h)
         THEN Quiet
         ELSE [Quiet EXCEPT !.invoked = <<[sink |-> h, report |-> error_info]>>,
                            !.diag = IF SinkRaises(h) THEN {"handler_failed"} ELSE {}]

\* @error_decorator def divide_numbers(a, b), decorated when example_usage is loaded
InitSteps ==
    /\ error_handler = NoSink
    /\ wrapped = Decorator(DivideNumbers, EmptyDict, EmptyDict)
    /\ tasks = <<>>
    /\ last = Done("init", None, NoSink, Returned(None, Quiet))
    /\ running = Idle

\* the target raises, the wrapper catches, _handle_exception classifies the
\* fault as one to capture and comes to the chain walk; one call is followed
\* in each behaviour
Catch ==
    \E fault \in StepFaults, loop \in BOOLEAN :
        /\ running.pc = "idle"
        /\ last.op = "init"
        /\ Classify(KindOf(fault), wrapped.ignore_errors, wrapped.propagate_errors) = "capture"
        /\ running' = [Idle EXCEPT !.pc = "chain", !.fault = fault, !.loop = loop,
                                   !.current_error = fault.root]
        /\ UNCHANGED <<error_handler, wrapped, tasks, last>>

\* one pass of the chain loop: a link is emitted, then the walk moves to the
\* cause or context, or breaks
ChainStep ==
    /\ running.pc = "chain"
    /\ WalkContinues(running.current_error, running.chain_index)
    /\ LET o == running.fault.objs[running.current_error]
           chain == Append(running.exception_chain, ChainLink(o, running.chain_index))
       IN  running' = IF NextLink(o) = 0
                      THEN [running EXCEPT !.exception_chain = chain, !.pc = "assemble"]
                      ELSE [running EXCEPT !.exception_chain = chain,
                                           !.current_error = NextLink(o),
                                           !.chain_index = @ + 1]
    /\ UNCHANGED <<error_handler, wrapped, tasks, last>>

\* the loop condition is false
ChainExit ==
    /\ running.pc = "chain"
    /\ ~WalkContinues(running.current_error, running.chain_index)
    /\ running' = [running EXCEPT !.pc = "assemble"]
    /\ UNCHANGED <<error_handler, wrapped, tasks, last>>

\* the report is put together and updated with the context; dispatch begins
Assemble ==
    /\ running.pc = "assemble"
    /\ LET env == Env("ok", running.loop, NoVal, 1)
           built == BuildReport(wrapped, running.fault, <<>>, EmptyDict, env,
                                CaughtTraceback(wrapped, EmptyDict, TRUE, 1), Files(env))
           error == [built.report["error"] EXCEPT !.exception_chain = running.exception_chain]
       IN  running' = [running EXCEPT !.pc = "presence",
                                      !.error_info = [built.report EXCEPT !["error"] = error],
                                      !.seen = {error_handler}]
    /\ UNCHANGED <<error_handler, wrapped, tasks, last>>

\* if cls._error_handler:
ReadPresence ==
    /\ running.pc = "presence"
    /\ running' = [running EXCEPT !.pc = IF error_handler # NoSink THEN "convention"
                                         ELSE "return"]
    /\ UNCHANGED <<error_handler, wrapped, tasks, last>>

\* if inspect.iscoroutinefunction(cls._error_handler):
ReadConvention ==
    /\ running.pc = "convention"
    /\ running' = [running EXCEPT !.pc = "invoke",
                                  !.convention = IsCoroutineSink(error_handler)]
    /\ UNCHANGED <<error_handler, wrapped, tasks, last>>

\* asyncio.create_task(cls._error_handler(error_info)) or cls._error_handler(error_info)
Invoke ==
    /\ running.pc = "invoke"
    /\ LET effect == InvokeSink(running.convention, error_handler, running.error_info,
                                running.loop)
       IN  /\ running' = [running EXCEPT !.pc = "return", !.effect = effect]
           /\ tasks' = tasks \o Pending(effect.scheduled)
    /\ UNCHANGED <<error_handler, wrapped, last>>

\* return type(e).__name__
Return ==
    /\ running.pc = "return"
    /\ last' = Done("stepped_call", running, error_handler,
                    Returned(Name(KindOf(running.fault)),
                             [running.effect EXCEPT !.report = running.error_info]))
    /\ running' = Idle
    /\ UNCHANGED <<error_handler, wrapped, tasks>>

\* set_error_handler(handler) on another thread; seen keeps the sinks
\* registered at some time since the dispatch began
SetHandlerRacing ==
    \E handler \in Sinks \cup {NoSink} :
        /\ error_handler' = SetErrorHandler(error_handler, handler)
        /\ running' = IF running.pc \in {"presence", "convention", "invoke"}
                      THEN [running EXCEPT !.seen = @ \cup {handler}]
                      ELSE running
        /\ UNCHANGED <<wrapped, tasks, last>>

NextSteps ==
    \/ Catch \/ ChainStep \/ ChainExit \/ Assemble \/ ReadPresence \/ ReadConvention
    \/ Invoke \/ Return \/ SetHandlerRacing \/ RunTask

\* the thread making the call keeps running
SpecSteps ==
    /\ InitSteps /\ [][NextSteps]_vars
    /\ WF_vars(ChainStep) /\ WF_vars(ChainExit) /\ WF_vars(Assemble)

(***************************************************************************)
(* What the properties read off the last operation.                        *)
(***************************************************************************)
IsCall == last.op = "call"

IsReport == last.op = "report_error"

\* the target as the wrapper called it
Called == CallTarget(wrapped.fn, last.in.args,
                     FilterArguments(wrapped.fn, last.in.kwargs), last.in.bodyFault)

\* the target called directly with the caller's arguments
Unwrapped == CallTarget(wrapped.fn, last.in.args, last.in.kwargs, last.in.bodyFault)

Faulted == IsCall /\ ~Called.ok

MatchesIgnore == \E t \in wrapped.ignore_errors : t \in Mro(KindOf(Called.fault))

MatchesPropagate == \E t \in wrapped.propagate_errors : t \in Mro(KindOf(Called.fault))

Captured == Faulted /\ ~MatchesIgnore /\ ~MatchesPropagate

ReturnedName == last.outcome = "returned" /\ last.value = Name(KindOf(Called.fault))

\* the reports handed to a sink, at once or in a scheduled run
Delivered == {last.invoked[i].report : i \in 1..Len(last.invoked)}
             \cup {last.scheduled[i].report : i \in 1..Len(last.scheduled)}

SinkRuns == Len(last.invoked) + Len(last.scheduled)

\* the report is assembled without an internal error
Assembles ==
    BuildReport(wrapped, Called.fault, last.in.args, last.in.kwargs, last.in.env,
                CaughtTraceback(wrapped, FilterArguments(wrapped.fn, last.in.kwargs),
                                Called.inBody, last.in.env.depth),
                Files(last.in.env)).ok

\* max_stack_depth as the operation was configured
ConfiguredDepth ==
    IF IsCall THEN wrapped.max_stack_depth
    ELSE Get(last.in.opts, "max_stack_depth", DefaultMaxStackDepth)

(***************************************************************************)
(* C1                                                                      *)
(***************************************************************************)
\* C1: a fault matching neither the ignore-set nor the propagate-set, with a
\* sink registered: the wrapped call does not raise, returns the fault-kind
\* name, and the sink is run exactly once with a report whose error.type is
\* that name.
C1_CapturedReportedOnce ==
    (Captured /\ last.handler \in Sinks) =>
        /\ ReturnedName
        /\ SinkRuns = 1
        /\ \A r \in Delivered :
              /\ r["error"].t = "error"
              /\ r["error"].type = KindOf(Called.fault)

(***************************************************************************)
(* C2                                                                      *)
(***************************************************************************)
\* C2: a fault whose kind or an ancestor of it is in ignore_errors: the
\* wrapped call returns the fault-kind name, no report is assembled and no
\* sink is run, also when the fault matches propagate_errors.
C2_IgnoredSilently ==
    (Faulted /\ MatchesIgnore) =>
        /\ ReturnedName
        /\ last.report = None
        /\ SinkRuns = 0
        /\ last.diag = {}

\* an ignored fault that matches the ignore-set by an ancestor only, and the
\* propagate-set too, with a sink registered
C2_Witness ==
    /\ Faulted /\ MatchesIgnore /\ MatchesPropagate
    /\ KindOf(Called.fault) \notin wrapped.ignore_errors
    /\ last.handler \in Sinks
    /\ ReturnedName

(***************************************************************************)
(* C3                                                                      *)
(***************************************************************************)
\* C3: a fault matching propagate_errors and not ignore_errors: the wrapped
\* call raises the very fault the target raised, and no sink is run.
C3_PropagatedUnchanged ==
    (Faulted /\ ~MatchesIgnore /\ MatchesPropagate) =>
        /\ last.outcome = "raised"
        /\ last.raised = Called.fault
        /\ last.report = None
        /\ SinkRuns = 0

\* a propagated fault, matched by an ancestor kind, with a sink registered
C3_Witness ==
    /\ Faulted /\ ~MatchesIgnore /\ MatchesPropagate
    /\ KindOf(Called.fault) \notin wrapped.propagate_errors
    /\ last.handler \in Sinks
    /\ last.outcome = "raised"

(***************************************************************************)
(* C4                                                                      *)
(***************************************************************************)
\* C4: whenever the target called directly with the same arguments does not
\* fault, the wrapped call returns exactly the result of that direct call.
C4_TransparentOnSuccess ==
    (IsCall /\ Unwrapped.ok) =>
        /\ last.outcome = "returned"
        /\ last.value = Unwrapped.result

(***************************************************************************)
(* C5                                                                      *)
(***************************************************************************)
\* C5: in every report assembled, the stack trace holds at most
\* max_stack_depth frame records and the exception chain at most 10 links.
C5_BoundedTraceAndChain ==
    (last.report # None) =>
        /\ last.report["stack_trace"].t = "frames" =>
              Len(last.report["stack_trace"].frames) <= ConfiguredDepth
        /\ last.report["error"].t = "error" =>
              Len(last.report["error"].exception_chain) <= ChainCap

\* a report whose chain was cut at the cap, made under a depth limit of 0
C5_Witness ==
    /\ IsCall /\ last.report # None
    /\ wrapped.max_stack_depth = 0
    /\ last.report["stack_trace"].t = "frames"
    /\ last.report["error"].t = "error"
    /\ Len(last.report["error"].exception_chain) = ChainCap

(***************************************************************************)
(* C6                                                                      *)
(***************************************************************************)
\* C6: in every report handed to the sink, the value under a sensitive key
\* is the redaction placeholder.
C6_SensitiveKeysRedacted ==
    \A r \in Delivered :
        \A k \in DOMAIN r :
            (k \in {"password", "token", "secret", "key", "api_key", "auth_token",
                    "_private"})
                => r[k] = Filtered

(***************************************************************************)
(* C7                                                                      *)
(***************************************************************************)
\* C7: every report handed to the sink has an error entry that is the
\* ErrorRecord of the fault reported, whatever extra keys were supplied.
C7_ErrorRecordPresent ==
    \A r \in Delivered :
        /\ "error" \in DOMAIN r
        /\ r["error"].t = "error"
        /\ r["error"].type = IF IsCall THEN KindOf(Called.fault) ELSE last.in.error_type

(***************************************************************************)
(* C8                                                                      *)
(***************************************************************************)
\* C8: when the sink raises during dispatch, the wrapped call still returns
\* the fault-kind name and report_error returns normally.
C8_SinkFailureCaught ==
    (Len(last.invoked) > 0 /\ SinkRaises(last.invoked[1].sink)) =>
        /\ IsCall => ReturnedName
        /\ IsReport => (last.outcome = "returned" /\ last.value = None)
        /\ last.raised = NoFault

\* report_error with a raising sink registered: the sink ran, the call returned
C8_Witness ==
    /\ IsReport
    /\ Len(last.invoked) = 1 /\ SinkRaises(last.invoked[1].sink)
    /\ last.outcome = "returned"
    /\ "handler_failed" \in last.diag

(***************************************************************************)
(* C9                                                                      *)
(***************************************************************************)
\* C9: for a captured fault, when assembling the report raises, the wrapped
\* call still returns the fault-kind name of the original fault.
C9_InternalFailureCaught ==
    (Captured /\ ~Assembles) => (ReturnedName /\ last.raised = NoFault)

\* a captured fault whose source file cannot be decoded
C9_Witness ==
    /\ Captured /\ ~Assembles
    /\ last.in.env.file = "undecodable"
    /\ ReturnedName
    /\ "internal_failed" \in last.diag

(***************************************************************************)
(* C10                                                                     *)
(***************************************************************************)
\* C10: set_error_handler(h) makes h the registered sink, nothing else
\* changes the registration, and a dispatch runs or schedules only the sink
\* registered when it starts: none when that is absent.
C10_MostRecentSinkOnly ==
    [][/\ last'.op = "set_error_handler" => error_handler' = last'.in
       /\ last'.op # "set_error_handler" => error_handler' = error_handler
       /\ last'.op \in {"call", "report_error"} =>
             /\ \A i \in 1..Len(last'.invoked) : last'.invoked[i].sink = error_handler
             /\ \A i \in 1..Len(last'.scheduled) : last'.scheduled[i].sink = error_handler
             /\ error_handler = NoSink => Len(last'.invoked) + Len(last'.scheduled) = 0]_vars

\* a report assembled with no sink registered, and none run
C10_Witness ==
    /\ IsCall /\ last.report # None
    /\ error_handler = NoSink
    /\ SinkRuns = 0

(***************************************************************************)
(* C11                                                                     *)
(***************************************************************************)
\* C11: a dispatch with a sink registered: a coroutine sink gets exactly one
\* detached run scheduled with the report and is not run before the
\* operation returns, whether the wrapped target is blocking or suspending;
\* a blocking sink is run once, with the report, inside the operation.
C11_DispatchByConvention ==
    (last.op \in {"call", "report_error"} /\ last.report # None /\ last.handler \in Sinks) =>
        IF IsCoroutineSink(last.handler)
        THEN /\ last.invoked = <<>>
             /\ last.scheduled = <<[sink |-> last.handler, report |-> last.report]>>
        ELSE /\ last.scheduled = <<>>
             /\ last.invoked = <<[sink |-> last.handler, report |-> last.report]>>

(***************************************************************************)
(* C12                                                                     *)
(***************************************************************************)
\* C12: the chain of every report assembled: link i has index i, is_original
\* exactly on index 0, and carries a relation exactly when a link i+1 follows
\* it, so that the last link emitted has none, also at the cap of 10 links;
\* an explicit cause chain of depth 2 gives 2 links with relations
\* caused_by, none.
C12_RelationOnlyBeforeNextLink ==
    (last.report # None /\ last.report["error"].t = "error") =>
        LET chain == last.report["error"].exception_chain
        IN  /\ \A i \in 1..Len(chain) :
                  /\ chain[i].index = i - 1
                  /\ chain[i].is_original = (i = 1)
                  /\ (chain[i].relation # "none") = (i < Len(chain))
            /\ (IsCall /\ last.in.bodyFault = Chained) =>
                  [i \in 1..Len(chain) |-> chain[i].relation] = <<"caused_by", "none">>

(***************************************************************************)
(* C13                                                                     *)
(***************************************************************************)
\* C13: a captured fault raised in the body of the wrapped target, reported
\* under max_stack_depth >= 1: the stack trace of the report is not empty
\* and its first frame record is that of the frame that raised.
C13_StackTraceNonEmpty ==
    (Captured /\ Called.inBody /\ wrapped.max_stack_depth >= 1 /\ last.report # None) =>
        LET frames == last.report["stack_trace"].frames
            tb == CaughtTraceback(wrapped, FilterArguments(wrapped.fn, last.in.kwargs),
                                  TRUE, last.in.env.depth).frames
        IN  /\ Len(frames) >= 1
            /\ frames[1].function_name = tb[Len(tb)].function

(***************************************************************************)
(* C14                                                                     *)
(***************************************************************************)
\* C14: a callable wrapped twice whose innermost target raises a fault that
\* neither layer ignores or propagates, with a sink registered: a report is
\* handed to the sink, it holds the decorated-function entries of both
\* layers under different keys, and the entries of the inner layer name the
\* innermost target and its file.
C14_BothLayersInReport ==
    (/\ last.op = "nested_call" /\ last.in.bodyFault.root # 0
     /\ last.handler \in Sinks /\ ~IsCoroutineSink(last.handler)
     /\ wrapped.ignore_errors = {} /\ wrapped.propagate_errors = {}) =>
        /\ Delivered # {}
        /\ \A r \in Delivered :
              /\ Cardinality({k \in DOMAIN r : r[k].t = "decorated"})
                    = 2 * Cardinality(DecoratedKeys)
              /\ r["decorated_function_name"] =
                    [t |-> "decorated", of |-> wrapped.fn.name, file |-> "target.py",
                     what |-> "decorated_function_name"]

(***************************************************************************)
(* C15                                                                     *)
(***************************************************************************)
\* C15: report_error called where no fault is being handled, with a sink
\* registered: the sink is run exactly once with a report whose error.type
\* is the kind name and whose error.message is the reason, and under
\* max_stack_depth >= 1 the stack trace holds the frame of the call.
C15_ManualReportLikeAutomatic ==
    (IsReport /\ ~last.in.handling /\ last.handler \in Sinks) =>
        /\ SinkRuns = 1
        /\ \A r \in Delivered :
              /\ r["error"].t = "error"
              /\ r["error"].type = last.in.error_type
              /\ r["error"].message = last.in.error_reason
              /\ r["stack_trace"].t = "frames"
              /\ ConfiguredDepth >= 1 => Len(r["stack_trace"].frames) >= 1

(***************************************************************************)
(* C16                                                                     *)
(***************************************************************************)
\* C16: a context key given both as a keyword of the decorator and as a
\* keyword of the call: the report handed to the sink holds the summary of
\* the call's value under that key.
C16_CallTimeOverridesDecorator ==
    IsCall =>
        \A r \in Delivered :
            \A k \in (DOMAIN last.in.kwargs) \cap (DOMAIN wrapped.context_decorator_kwargs) :
                r[k] = IF IsSensitive(k) THEN Filtered
                       ELSE Summarize(last.in.kwargs[k], KwLimit)

(***************************************************************************)
(* C17                                                                     *)
(***************************************************************************)
\* C17: with set_error_handler running between the three reads of the sink
\* reference: the wrapped call returns the fault-kind name and raises
\* nothing, and the report goes to at most one sink run, of a sink that was
\* registered at some time during the dispatch.
C17_RacingRegistrationSafe ==
    (last.op = "stepped_call") =>
        /\ last.outcome = "returned"
        /\ last.raised = NoFault
        /\ last.value = Name(KindOf(last.in.fault))
        /\ SinkRuns <= 1
        /\ \A i \in 1..Len(last.invoked) :
              /\ last.invoked[i].sink \in last.in.seen \ {NoSink}
              /\ last.invoked[i].report = last.in.error_info
        /\ \A i \in 1..Len(last.scheduled) :
              /\ last.scheduled[i].sink \in last.in.seen \ {NoSink}
              /\ last.scheduled[i].report = last.in.error_info

\* the registration changed between the reads: the convention read found a
\* coroutine sink, the call was made on a blocking sink, which ran once
C17_Witness ==
    /\ last.op = "stepped_call"
    /\ last.in.convention
    /\ Len(last.invoked) = 1 /\ ~IsCoroutineSink(last.invoked[1].sink)
    /\ Cardinality(last.in.seen) >= 2
    /\ last.outcome = "returned"

(***************************************************************************)
(* C18                                                                     *)
(***************************************************************************)
\* C18: the chain walk of every fault, cyclic ones included, emits at most
\* 10 links, emits what the walk is defined to emit, and always comes to its
\* end, after which the report is assembled.
C18_ChainWalkTerminates ==
    /\ [](/\ Len(running.exception_chain) <= ChainCap
          /\ running.pc \in {"assemble", "presence"} =>
                running.exception_chain = ChainWalk(running.fault.objs, running.fault.root, 0))
    /\ ((running.pc = "chain") ~> (running.pc = "presence"))

\* the report of two faults that are each other's cause, assembled with a
\* chain cut at 10 links
C18_Witness ==
    /\ running.pc = "presence"
    /\ running.fault = MutualCause
    /\ Len(running.exception_chain) = ChainCap
    /\ running.error_info["error"].exception_chain = running.exception_chain

====
